---- MODULE Spec2Model ----
(***************************************************************************)
(* Model of src/index.html.jsx: the App component (simplified-mode flag   *)
(* and font size, both persisted in localStorage), the LessonCard render,  *)
(* the Quiz and the HelpWidget.                                            *)
(*                                                                         *)
(* Strings whose content the code inspects (stored values, the help input) *)
(* are sequences of one-character strings, so that trim(), Number() and    *)
(* String() are computed character by character.  JavaScript numbers are   *)
(* records [finite, val]; NaN is the only non-finite number the modelled   *)
(* strings can produce (the alphabet has no ".", "e", "x" or "Infinity").  *)
(***************************************************************************)
EXTENDS Integers, Sequences, FiniteSets, TLC

VARIABLES
  storageAvailable, \* whether localStorage can be read and written at all
  storage,          \* localStorage: key -> item (absent, or a string)
  phase,            \* "mounted" | "pending" | "idle" | "crashed"
  eli5,             \* App: useState(false)
  fontSize,         \* App: useState<number>(initializer)
  pendingEli5,      \* setEli5 updates queued by the mount effect
  answer,           \* Quiz: useState<string | null>(null)
  open,             \* HelpWidget: useState(false)
  messages,         \* HelpWidget: the message log
  text,             \* HelpWidget: the input box
  \* history variables: what the user last did, recorded for the properties
  sliderReq,        \* {} or {v}: the last value requested with the slider
  fontReloaded,     \* a reload happened since the last slider request
  fontWrites,       \* {} or {s}: the last string written under app:fontSizePx
  toggledTo,        \* {} or {b}: the value the last ELI5 toggle produced
  eli5Reloaded,     \* a reload happened since the last ELI5 toggle
  picked,           \* the last two quiz options selected, oldest first
  toggleRun,        \* consecutive help-button presses since any other step
  runOpen,          \* open, before that run of presses
  runLog            \* messages, before that run of presses

progVars == <<storageAvailable, storage, phase, eli5, fontSize, pendingEli5,
              answer, open, messages, text>>
histVars == <<sliderReq, fontReloaded, fontWrites, toggledTo, eli5Reloaded,
              picked, toggleRun, runOpen, runLog>>
vars == <<progVars, histVars>>

---------------------------------------------------------------------------
(* Bounds *)

MaxStrLen == 3   \* longest initial string under app:fontSizePx
ReqSlack == 2    \* slider requests range over 14-ReqSlack .. 24+ReqSlack
MaxLogLen == 5   \* send appends only while the log is shorter than this

(* Program constants *)

MinFontSize == 14
MaxFontSize == 24
DefaultFontSize == 16

---------------------------------------------------------------------------
(* Strings *)

WhiteSpace == {" "}

DigitChars == <<"0", "1", "2", "3", "4", "5", "6", "7", "8", "9">>

IsDigit(c) == \E i \in 1..10 : DigitChars[i] = c

DigitValue(c) == (CHOOSE i \in 1..10 : DigitChars[i] = c) - 1

RECURSIVE TrimStart(_)
TrimStart(s) ==
  IF Len(s) > 0 /\ Head(s) \in WhiteSpace THEN TrimStart(Tail(s)) ELSE s

RECURSIVE TrimEnd(_)
TrimEnd(s) ==
  IF Len(s) > 0 /\ s[Len(s)] \in WhiteSpace
    THEN TrimEnd(SubSeq(s, 1, Len(s) - 1))
    ELSE s

\* String.prototype.trim
Trim(s) == TrimEnd(TrimStart(s))

---------------------------------------------------------------------------
(* Numbers *)

Num(n) == [finite |-> TRUE, val |-> n]
NaN == [finite |-> FALSE, val |-> 0]

\* Number.isFinite
IsFinite(x) == x.finite

MathMin(a, b) ==
  IF ~a.finite \/ ~b.finite THEN NaN
  ELSE IF a.val <= b.val THEN a ELSE b

MathMax(a, b) ==
  IF ~a.finite \/ ~b.finite THEN NaN
  ELSE IF a.val >= b.val THEN a ELSE b

\* clamp without Math.min: the upper limit is lost
clampNoUpper(n, min, max) == MathMax(min, n)

clamp(n, min, max) == MathMax(min, MathMin(max, n))

AllDigits(s) == Len(s) > 0 /\ \A i \in 1..Len(s) : IsDigit(s[i])

RECURSIVE DecimalValue(_)
DecimalValue(s) ==
  IF Len(s) = 0 THEN 0
  ELSE 10 * DecimalValue(SubSeq(s, 1, Len(s) - 1)) + DigitValue(s[Len(s)])

\* Number(s) for a string s: surrounding white space is dropped, the empty
\* string is 0, an optionally signed decimal integer is its value, and
\* anything else is NaN.
StringToNumber(s) ==
  LET t == Trim(s) IN
  IF Len(t) = 0 THEN Num(0)
  ELSE IF AllDigits(t) THEN Num(DecimalValue(t))
  ELSE IF Head(t) = "-" /\ AllDigits(Tail(t)) THEN Num(0 - DecimalValue(Tail(t)))
  ELSE IF Head(t) = "+" /\ AllDigits(Tail(t)) THEN Num(DecimalValue(Tail(t)))
  ELSE NaN

RECURSIVE DigitsOf(_)
DigitsOf(k) ==
  IF k < 10 THEN <<DigitChars[k + 1]>>
  ELSE DigitsOf(k \div 10) \o <<DigitChars[(k % 10) + 1]>>

\* String(n) for a number n
NumberToString(n) ==
  IF ~n.finite THEN <<"N", "a", "N">>
  ELSE IF n.val < 0 THEN <<"-">> \o DigitsOf(0 - n.val)
  ELSE DigitsOf(n.val)

\* String(b) for a boolean b
BoolToString(b) ==
  IF b THEN <<"t", "r", "u", "e">> ELSE <<"f", "a", "l", "s", "e">>

---------------------------------------------------------------------------
(* localStorage *)

LS_KEYS == [eli5 |-> "app:eli5", fontSize |-> "app:fontSizePx"]

Null == [present |-> FALSE, value |-> <<>>]
Item(s) == [present |-> TRUE, value |-> s]

getItem(st, key) == st[key]

setItem(st, key, s) == [st EXCEPT ![key] = Item(s)]

\* Number(x) for the result of getItem: Number(null) is 0
ToNumber(item) == IF item.present THEN StringToNumber(item.value) ELSE Num(0)

\* truthiness of the result of getItem: null and "" are falsy
Truthy(item) == item.present /\ Len(item.value) > 0

EmptyStorage == [k \in {LS_KEYS.eli5, LS_KEYS.fontSize} |-> Null]

---------------------------------------------------------------------------
(* App: state initialisers and effects *)

\* useState<number>(() => ...): the font size of the first render
FontSizeInitializer(st) ==
  LET saved == ToNumber(getItem(st, LS_KEYS.fontSize)) IN
  IF IsFinite(saved)
    THEN clamp(saved, Num(MinFontSize), Num(MaxFontSize))
    ELSE Num(DefaultFontSize)

\* a load effect that never restores the saved flag
LoadEli5EffectIgnoresSaved(st) == <<>>

\* first effect, deps []: the setEli5 updates it queues
LoadEli5Effect(st) ==
  LET savedEli5 == getItem(st, LS_KEYS.eli5) IN
  IF Truthy(savedEli5)
    THEN <<savedEli5.value = BoolToString(TRUE)>>
    ELSE <<>>

\* second effect, deps [eli5]
PersistEli5Effect(st, e) == setItem(st, LS_KEYS.eli5, BoolToString(e))

\* a persist effect that leaves app:fontSizePx as it was
PersistFontSizeEffectSkipsWrite(st, fs) == st

\* third effect, deps [fontSize]
PersistFontSizeEffect(st, fs) == setItem(st, LS_KEYS.fontSize, NumberToString(fs))

\* The App state of a render from scratch.  The initializer calls
\* localStorage.getItem outside any try/catch: when storage cannot be read
\* the call throws, the render throws and nothing is mounted (the state
\* values of a crashed page are placeholders, no component holds them).
FirstRender(st, ok) ==
  [phase    |-> IF ok THEN "mounted" ELSE "crashed",
   eli5     |-> FALSE,
   fontSize |-> IF ok THEN FontSizeInitializer(st) ELSE Num(DefaultFontSize)]

---------------------------------------------------------------------------
(* LessonCard *)

Lessons == {"lesson1", "lesson2", "lesson3"}

\* a card whose normal text is never hidden
LessonCardShowsBoth(showEli5) ==
  [normal |-> "block", eli5 |-> IF showEli5 THEN "block" ELSE "hidden"]

\* the display class of each of the two paragraphs of a card
LessonCard(showEli5) ==
  [normal |-> IF showEli5 THEN "hidden" ELSE "block",
   eli5   |-> IF showEli5 THEN "block" ELSE "hidden"]

\* App renders every lesson with showEli5 = eli5
RenderedCard(l) == LessonCard(eli5)

Visible(class) == class = "block"

---------------------------------------------------------------------------
(* Quiz *)

NoAnswer == "<null>"
QuizOptions == {"correct", "mouse", "spacebar"}

isCorrect == answer = "correct"

\* {answer && <p>...</p>}: null is falsy, every option key is truthy
FeedbackShown == answer # NoAnswer

PositiveFeedback == "Correct! That's the power button."
NegativeFeedback == "Not quite. Try again!"

FeedbackText == IF isCorrect THEN PositiveFeedback ELSE NegativeFeedback

---------------------------------------------------------------------------
(* HelpWidget *)

Greeting == [from |-> "bot", text |-> "Hi! Need help? Ask me about any lesson."]
CannedReply ==
  [from |-> "bot",
   text |-> "I'll explain simply: computers are tools. Which part confuses you - power button, mouse, or opening apps?"]
UserMessage(t) == [from |-> "you", text |-> t]

\* first updater passed to setMessages in send
AppendUser(m, t) == m \o <<UserMessage(t)>>

\* second updater passed to setMessages in send
AppendUserAndReply(m, t) == m \o <<UserMessage(t), CannedReply>>

\* what the user can type in the input box
Texts == { <<>>, <<" ">>, <<"a">>, <<" ", "b", " ">> }

---------------------------------------------------------------------------
(* Initial states: the page has just rendered for the first time, over any  *)
(* content of the two storage keys.                                         *)

Alphabet == {"0", "1", "2", "9", " ", "a", "-"}

StringsUpTo(n) == UNION { [1..k -> Alphabet] : k \in 0..n }

InitialFontItems == {Null} \cup { Item(s) : s \in StringsUpTo(MaxStrLen) }

InitialEli5Items ==
  {Null, Item(<<>>), Item(BoolToString(TRUE)), Item(BoolToString(FALSE)),
   Item(<<"a">>)}

InitialStorages ==
  { [k \in {LS_KEYS.eli5, LS_KEYS.fontSize} |->
       IF k = LS_KEYS.eli5 THEN e ELSE f] :
    e \in InitialEli5Items, f \in InitialFontItems }

\* Quiz and HelpWidget state of a first render
WidgetsInit ==
  /\ answer = NoAnswer
  /\ open = FALSE
  /\ messages = <<Greeting>>
  /\ text = <<>>

HistoryInit ==
  /\ sliderReq = {}
  /\ fontReloaded = FALSE
  /\ fontWrites = {}
  /\ toggledTo = {}
  /\ eli5Reloaded = FALSE
  /\ picked = <<>>
  /\ toggleRun = 0
  /\ runOpen = FALSE
  /\ runLog = <<Greeting>>

InitOver(storages, oks) ==
  /\ storageAvailable \in oks
  /\ storage \in storages
  /\ LET r == FirstRender(storage, storageAvailable) IN
       /\ phase = r.phase
       /\ eli5 = r.eli5
       /\ fontSize = r.fontSize
  /\ pendingEli5 = <<>>
  /\ WidgetsInit
  /\ HistoryInit

Init == InitOver(InitialStorages, BOOLEAN)

---------------------------------------------------------------------------
(* History recorders: they read the step, they never constrain it *)

KeepFontHistory == UNCHANGED <<sliderReq, fontReloaded>>
KeepEli5History == UNCHANGED <<toggledTo, eli5Reloaded>>
KeepPicked == UNCHANGED picked

\* the last string written under app:fontSizePx, if this step wrote one
RecordFontWrite(wrote) ==
  fontWrites' = IF wrote THEN {storage'[LS_KEYS.fontSize].value} ELSE fontWrites

\* any step but a press of the help button starts a new run of presses
ResetRun ==
  /\ toggleRun' = 0
  /\ runOpen' = open'
  /\ runLog' = messages'

\* a press of the help button: the fourth press in a row starts a new run
CountRun ==
  IF toggleRun < 3
    THEN /\ toggleRun' = toggleRun + 1
         /\ UNCHANGED <<runOpen, runLog>>
    ELSE /\ toggleRun' = 1
         /\ runOpen' = open
         /\ runLog' = messages

---------------------------------------------------------------------------
(* App: page load.  A load is three steps: the first render (Init, Reload), *)
(* the flush of the three mount effects in source order, and the re-render  *)
(* that applies the update the first effect queued.  User events are       *)
(* handled once the page is idle.                                          *)

AppUnchanged ==
  UNCHANGED <<storageAvailable, storage, phase, eli5, fontSize, pendingEli5>>

WidgetsUnchanged == UNCHANGED <<answer, open, messages, text>>

\* The mount effects, in the order the component declares them: the load
\* effect reads app:eli5 and queues setEli5; the two persist effects write
\* the values of this render (eli5 is still the initial false).
MountEffects ==
  /\ phase = "mounted"
  /\ LET queued == LoadEli5Effect(storage)
         st2 == PersistEli5Effect(storage, eli5)
         st3 == PersistFontSizeEffect(st2, fontSize)
     IN /\ pendingEli5' = queued
        /\ storage' = st3
        /\ phase' = IF Len(queued) > 0 THEN "pending" ELSE "idle"
  /\ UNCHANGED <<storageAvailable, eli5, fontSize>>
  /\ WidgetsUnchanged

\* The render the queued setEli5 causes; the [eli5] effect runs again when
\* the value changed.
Rerender ==
  /\ phase = "pending"
  /\ LET e == Head(pendingEli5) IN
       /\ eli5' = e
       /\ storage' = IF e # eli5 THEN PersistEli5Effect(storage, e) ELSE storage
  /\ pendingEli5' = <<>>
  /\ phase' = "idle"
  /\ UNCHANGED <<storageAvailable, fontSize>>
  /\ WidgetsUnchanged

\* The user reloads the page (at any moment): every component state is
\* rebuilt from scratch, localStorage is what survives.
Reload ==
  /\ LET r == FirstRender(storage, storageAvailable) IN
       /\ phase' = r.phase
       /\ eli5' = r.eli5
       /\ fontSize' = r.fontSize
  /\ pendingEli5' = <<>>
  /\ answer' = NoAnswer
  /\ open' = FALSE
  /\ messages' = <<Greeting>>
  /\ text' = <<>>
  /\ UNCHANGED <<storageAvailable, storage>>

---------------------------------------------------------------------------
(* App: user events *)

\* Toggle onToggle: setEli5(v => !v), then the [eli5] effect
ToggleEli5 ==
  /\ phase = "idle"
  /\ eli5' = ~eli5
  /\ storage' = PersistEli5Effect(storage, eli5')
  /\ UNCHANGED <<storageAvailable, phase, fontSize, pendingEli5>>
  /\ WidgetsUnchanged

\* slider onChange with e.target.value = value: setFontSize(clamp(Number(
\* value), 14, 24)), then the [fontSize] effect when the value changed
SetFontSize(value) ==
  /\ phase = "idle"
  /\ LET n == clamp(StringToNumber(value), Num(MinFontSize), Num(MaxFontSize)) IN
       /\ fontSize' = n
       /\ storage' = IF n # fontSize THEN PersistFontSizeEffect(storage, n)
                                     ELSE storage
  /\ UNCHANGED <<storageAvailable, phase, eli5, pendingEli5>>
  /\ WidgetsUnchanged

\* the values a set request may carry, in and out of the slider's range
Requests == (MinFontSize - ReqSlack) .. (MaxFontSize + ReqSlack)

---------------------------------------------------------------------------
(* Quiz and HelpWidget: user events *)

\* a quiz that keeps its first answer
SelectOptionLocksFirst(key) ==
  /\ phase = "idle"
  /\ answer' = IF answer = NoAnswer THEN key ELSE answer
  /\ UNCHANGED <<open, messages, text>>
  /\ AppUnchanged

\* option button onClick: setAnswer(opt.key)
SelectOption(key) ==
  /\ phase = "idle"
  /\ answer' = key
  /\ UNCHANGED <<open, messages, text>>
  /\ AppUnchanged

\* a help button that also resets the log
ToggleOpenClearsLog ==
  /\ phase = "idle"
  /\ open' = ~open
  /\ messages' = <<Greeting>>
  /\ UNCHANGED <<answer, text>>
  /\ AppUnchanged

\* help button onClick: setOpen(v => !v)
ToggleOpen ==
  /\ phase = "idle"
  /\ open' = ~open
  /\ UNCHANGED <<answer, messages, text>>
  /\ AppUnchanged

\* input onChange: setText(e.target.value)
SetText(value) ==
  /\ phase = "idle"
  /\ text' = value
  /\ UNCHANGED <<answer, open, messages>>
  /\ AppUnchanged

\* send (Send button, or Enter in the input): both setMessages calls pass an
\* updater, so the second is applied to the result of the first.  The log
\* is capped at MaxLogLen to keep the model finite.
Send ==
  /\ phase = "idle"
  /\ LET t == Trim(text) IN
       IF Len(t) = 0
         THEN UNCHANGED <<messages, text>>
         ELSE /\ Len(messages) < MaxLogLen
              /\ messages' = AppendUserAndReply(AppendUser(messages, t), t)
              /\ text' = <<>>
  /\ UNCHANGED <<answer, open>>
  /\ AppUnchanged

---------------------------------------------------------------------------
(* Steps: each action with what the history variables record of it *)

StepMountEffects ==
  /\ MountEffects
  /\ RecordFontWrite(TRUE)
  /\ KeepFontHistory /\ KeepEli5History /\ KeepPicked /\ ResetRun

StepRerender ==
  /\ Rerender
  /\ RecordFontWrite(FALSE)
  /\ KeepFontHistory /\ KeepEli5History /\ KeepPicked /\ ResetRun

\* A reload that cuts a load short between the mount effects and the
\* re-render is not the reload of a settled page: the toggle recorded
\* before it is forgotten.
StepReload ==
  /\ Reload
  /\ fontReloaded' = TRUE
  /\ eli5Reloaded' = TRUE
  /\ toggledTo' = IF phase = "pending" THEN {} ELSE toggledTo
  /\ picked' = <<>>
  /\ UNCHANGED <<sliderReq, fontWrites>>
  /\ ResetRun

StepToggleEli5 ==
  /\ ToggleEli5
  /\ toggledTo' = {eli5'}
  /\ eli5Reloaded' = FALSE
  /\ RecordFontWrite(FALSE)
  /\ KeepFontHistory /\ KeepPicked /\ ResetRun

StepSetFontSize ==
  \E v \in Requests :
    /\ SetFontSize(NumberToString(Num(v)))
    /\ sliderReq' = {v}
    /\ fontReloaded' = FALSE
    /\ RecordFontWrite(fontSize' # fontSize)
    /\ KeepEli5History /\ KeepPicked /\ ResetRun

StepSelectOption ==
  \E key \in QuizOptions :
    /\ SelectOption(key)
    /\ picked' = IF Len(picked) < 2 THEN Append(picked, key)
                                    ELSE <<picked[2], key>>
    /\ RecordFontWrite(FALSE)
    /\ KeepFontHistory /\ KeepEli5History /\ ResetRun

StepToggleOpen ==
  /\ ToggleOpen
  /\ CountRun
  /\ RecordFontWrite(FALSE)
  /\ KeepFontHistory /\ KeepEli5History /\ KeepPicked

StepSetText ==
  \E value \in Texts :
    /\ SetText(value)
    /\ RecordFontWrite(FALSE)
    /\ KeepFontHistory /\ KeepEli5History /\ KeepPicked /\ ResetRun

StepSend ==
  /\ Send
  /\ RecordFontWrite(FALSE)
  /\ KeepFontHistory /\ KeepEli5History /\ KeepPicked /\ ResetRun

---------------------------------------------------------------------------
(* Specifications *)

\* The preferences: page loads over any stored content, with storage
\* available or not, the ELI5 toggle and the font-size slider.
NextPrefs ==
  \/ StepMountEffects
  \/ StepRerender
  \/ StepReload
  \/ StepToggleEli5
  \/ StepSetFontSize

SpecPrefs == Init /\ [][NextPrefs]_vars

\* The quiz and the help widget, on a page first loaded over empty storage.
InitWidgets == InitOver({EmptyStorage}, {TRUE})

NextWidgets ==
  \/ StepMountEffects
  \/ StepRerender
  \/ StepReload
  \/ StepSelectOption
  \/ StepToggleOpen
  \/ StepSetText
  \/ StepSend

SpecWidgets == InitWidgets /\ [][NextWidgets]_vars

---------------------------------------------------------------------------
(* Properties *)

InFontRange(n) == n.finite /\ MinFontSize <= n.val /\ n.val <= MaxFontSize

\* a string Number() reads as a decimal integer (white space around it and
\* a sign allowed)
IsDecimalNumeral(s) ==
  LET t == Trim(s) IN
  \/ AllDigits(t)
  \/ Len(t) > 1 /\ Head(t) \in {"-", "+"} /\ AllDigits(Tail(t))

\* C1: send appends to the log exactly a user message carrying the trimmed
\* text followed by the fixed reply when the trimmed text is non-empty, and
\* nothing when the text is empty or white space.
C1_SendAppendsTwo ==
  [][Send =>
       LET t == Trim(text) IN
         IF Len(t) > 0
           THEN messages' = messages \o <<UserMessage(t), CannedReply>>
           ELSE messages' = messages]_vars

\* C2: a first render over storage holding neither key has simplified mode
\* off, font size 16, the quiz unanswered, the help panel collapsed and a
\* log holding exactly the greeting.
C2_FreshLoadDefaults ==
  (phase = "mounted" /\ storage = EmptyStorage) =>
    /\ eli5 = FALSE
    /\ fontSize = Num(DefaultFontSize)
    /\ answer = NoAnswer
    /\ open = FALSE
    /\ messages = <<Greeting>>

\* C3: with storage unavailable the page never reaches an error state.
C3_NoErrorWithoutStorage == ~storageAvailable => phase # "crashed"

\* C4: once the slider has requested a value v in 14..24 and the page has
\* been reloaded since, the font size in memory is v.
C4_SliderRoundTrip ==
  \A v \in sliderReq :
    (v \in MinFontSize..MaxFontSize /\ fontReloaded /\ phase # "crashed")
      => fontSize = Num(v)

\* C4 witness: 20 was requested after an ELI5 toggle, then the page reloaded
\* and settled.
C4_Witness ==
  /\ sliderReq = {20}
  /\ fontReloaded
  /\ toggledTo # {}
  /\ phase = "idle"
  /\ fontSize = Num(20)

\* C5: the font size in memory is a number in 14..24, and so is the number
\* read from every string the page writes under app:fontSizePx.
C5_FontSizeInRange ==
  /\ phase # "crashed" => InFontRange(fontSize)
  /\ \A w \in fontWrites : InFontRange(StringToNumber(w))

\* C5 witness: the slider requested a value above 24 and 24 was stored.
C5_Witness ==
  /\ sliderReq = {MaxFontSize + ReqSlack}
  /\ fontSize = Num(MaxFontSize)
  /\ fontWrites = {NumberToString(Num(MaxFontSize))}
  /\ getItem(storage, LS_KEYS.fontSize) = Item(<<"2", "4">>)

\* C6: once the user has toggled simplified mode to b, the page has been
\* reloaded and its load has settled, the flag in memory is b and
\* app:eli5 holds the string of b.
C6_Eli5RoundTrip ==
  \A b \in toggledTo :
    (eli5Reloaded /\ phase = "idle") =>
      /\ eli5 = b
      /\ getItem(storage, LS_KEYS.eli5) = Item(BoolToString(b))

\* C6 witness: toggled on, reloaded, settled.
C6_Witness ==
  /\ toggledTo = {TRUE}
  /\ eli5Reloaded
  /\ phase = "idle"
  /\ eli5 = TRUE

\* C7: every lesson card shows exactly one of its two texts: the simplified
\* one exactly when simplified mode is on, the normal one exactly when off.
C7_ExactlyOneVariant ==
  \A l \in Lessons :
    LET card == RenderedCard(l) IN
      /\ Visible(card.eli5) <=> eli5
      /\ Visible(card.normal) <=> ~eli5
      /\ Visible(card.eli5) # Visible(card.normal)

\* C7 witness: simplified mode was toggled on and the cards show the
\* simplified text only.
C7_Witness ==
  /\ toggledTo = {TRUE}
  /\ eli5
  /\ \A l \in Lessons :
       Visible(RenderedCard(l).eli5) /\ ~Visible(RenderedCard(l).normal)

\* C8: no feedback shows until an option is selected; afterwards the
\* feedback is that of the option selected last: positive for "correct",
\* negative for "mouse" and "spacebar".
C8_FeedbackOfLastPick ==
  IF picked = <<>>
    THEN ~FeedbackShown
    ELSE /\ FeedbackShown
         /\ FeedbackText = IF picked[Len(picked)] = "correct"
                             THEN PositiveFeedback
                             ELSE NegativeFeedback

\* C8 witness: "mouse" selected right after "correct" shows the negative
\* feedback.
C8_Witness ==
  /\ picked = <<"correct", "mouse">>
  /\ FeedbackShown
  /\ FeedbackText = NegativeFeedback

\* C9: during a run of presses of the help button the log stays what it was
\* and the panel is flipped once per press; after three presses from
\* collapsed it is expanded.
C9_HelpToggleKeepsLog ==
  toggleRun > 0 =>
    /\ messages = runLog
    /\ open = (IF toggleRun % 2 = 1 THEN ~runOpen ELSE runOpen)

\* C9 witness: three presses from collapsed, over a log with sent messages.
C9_Witness ==
  /\ toggleRun = 3
  /\ ~runOpen
  /\ open
  /\ Len(messages) > 1
  /\ messages = runLog

\* C10: a first render over an app:fontSizePx that is present but is not a
\* decimal numeral has the default font size 16.
C10_MalformedIsDefault ==
  LET saved == getItem(storage, LS_KEYS.fontSize) IN
    (phase = "mounted" /\ saved.present /\ ~IsDecimalNumeral(saved.value))
      => fontSize = Num(DefaultFontSize)

====
